---- MODULE Spec2Model ----
(***************************************************************************)
(* Model of the client operations profileGuard, lockProfile and reactPost  *)
(* (and of the older profileGuard variant whose log tag is                 *)
(* "setProfileGuard").  Every call is an async function: its body runs     *)
(* synchronously up to the await of defaultFuncs.post(...).then(...), and  *)
(* the rest runs when the transport answers.  A call slot records, in      *)
(* program order, everything the call did that an observer can see:        *)
(* utils.log / utils.error entries, the post handed to the transport, the  *)
(* invocations of the caller's callback, and the state of the promise the  *)
(* caller got back.                                                        *)
(***************************************************************************)
EXTENDS Integers, Sequences, FiniteSets, TLC

VARIABLES calls, ctx, netPosts

vars == <<calls, ctx, netPosts>>

\* Bounds of the model: the calls outstanding together in SpecCalls, and the
\* values the clock, the random source and the identifier generator can yield.
MaxCalls == 2
MaxGen == 2

----------------------------------------------------------------------------
\* JavaScript values.  A string is a sequence of one-character strings.

Undefined == [type |-> "undefined", b |-> FALSE, s |-> <<>>, throws |-> FALSE, async |-> FALSE]
Null == [type |-> "null", b |-> FALSE, s |-> <<>>, throws |-> FALSE, async |-> FALSE]
Bool(x) == [type |-> "boolean", b |-> x, s |-> <<>>, throws |-> FALSE, async |-> FALSE]
Str(x) == [type |-> "string", b |-> FALSE, s |-> x, throws |-> FALSE, async |-> FALSE]
Num(x) == [type |-> "number", b |-> FALSE, s |-> x, throws |-> FALSE, async |-> FALSE]
\* A function value; throws: it throws whenever it is invoked.
Fn(t) == [type |-> "function", b |-> FALSE, s |-> <<>>, throws |-> t, async |-> FALSE]
AsyncFn == [type |-> "function", b |-> FALSE, s |-> <<>>, throws |-> FALSE, async |-> TRUE]

\* ToBoolean, as used by !x, x || y and if (x).
Truthy(v) ==
    CASE v.type = "undefined" -> FALSE
      [] v.type = "null" -> FALSE
      [] v.type = "boolean" -> v.b
      [] v.type = "string" -> v.s # <<>>
      [] v.type = "number" -> v.s # <<"0">>
      [] OTHER -> TRUE

\* typeof x
TypeOf(v) == IF v.type = "null" THEN "object" ELSE v.type

\* utils.getType(x): Object.prototype.toString.call(x).slice(8, -1)
getType(v) ==
    CASE v.type = "undefined" -> "Undefined"
      [] v.type = "null" -> "Null"
      [] v.type = "boolean" -> "Boolean"
      [] v.type = "string" -> "String"
      [] v.type = "number" -> "Number"
      [] OTHER -> IF v.async THEN "AsyncFunction" ELSE "Function"

\* Errors.  NoErr is the null a success passes as first argument, UndefErr the
\* missing first argument of callback().
NoErr == [name |-> "null", message |-> ""]
UndefErr == [name |-> "undefined", message |-> ""]
Error(msg) == [name |-> "Error", message |-> msg]
TypeError(msg) == [name |-> "TypeError", message |-> msg]
\* A thrown plain object, { error: ... } or { err: ... }.
Thrown(msg) == [name |-> "Object", message |-> msg]
IsErr(e) == e.name \notin {"null", "undefined"}

\* What a throwing callback throws.
CbError == Error("thrown by the callback")

\* Results.  NoData is the missing second argument.
NoData == [success |-> FALSE, kind |-> "undefined"]

----------------------------------------------------------------------------
\* String.prototype.toUpperCase on the letters the reaction names use.

LowerLetters == <<"a", "c", "d", "e", "g", "h", "i", "k", "l", "n", "o", "r", "s", "u", "v", "w", "y", "b">>
UpperLetters == <<"A", "C", "D", "E", "G", "H", "I", "K", "L", "N", "O", "R", "S", "U", "V", "W", "Y", "B">>

UpperChar(ch) ==
    IF \E i \in DOMAIN LowerLetters : LowerLetters[i] = ch
    THEN UpperLetters[CHOOSE i \in DOMAIN LowerLetters : LowerLetters[i] = ch]
    ELSE ch

toUpperCase(str) == [i \in DOMAIN str |-> UpperChar(str[i])]

----------------------------------------------------------------------------
\* reactPost: the reaction table and the feedback identifier.

\* REACTION_TYPES, in the order of its keys.
REACTION_TYPES ==
    << [name |-> <<"L", "I", "K", "E">>, code |-> 1],
       [name |-> <<"L", "O", "V", "E">>, code |-> 2],
       [name |-> <<"C", "A", "R", "E">>, code |-> 16],
       [name |-> <<"H", "A", "H", "A">>, code |-> 4],
       [name |-> <<"W", "O", "W">>, code |-> 3],
       [name |-> <<"S", "A", "D">>, code |-> 7],
       [name |-> <<"A", "N", "G", "R", "Y">>, code |-> 8],
       [name |-> <<"N", "O", "N", "E">>, code |-> 0] >>

\* REACTION_TYPES.hasOwnProperty(key)
hasOwnProperty(key) == \E i \in DOMAIN REACTION_TYPES : REACTION_TYPES[i].name = key

\* REACTION_TYPES[key], for an own key
Lookup(key) == REACTION_TYPES[CHOOSE i \in DOMAIN REACTION_TYPES : REACTION_TYPES[i].name = key].code

\* The UTF-8 byte of a character of "feedback:" or of a post id.
CharCode(ch) ==
    CASE ch = "f" -> 102 [] ch = "e" -> 101 [] ch = "d" -> 100 [] ch = "b" -> 98
      [] ch = "a" -> 97 [] ch = "c" -> 99 [] ch = "k" -> 107 [] ch = ":" -> 58
      [] ch = "_" -> 95
      [] ch = "0" -> 48 [] ch = "1" -> 49 [] ch = "2" -> 50 [] ch = "3" -> 51
      [] ch = "4" -> 52 [] ch = "5" -> 53 [] ch = "6" -> 54 [] ch = "7" -> 55
      [] ch = "8" -> 56 [] ch = "9" -> 57

Base64Alphabet ==
    << "A", "B", "C", "D", "E", "F", "G", "H", "I", "J", "K", "L", "M", "N", "O", "P",
       "Q", "R", "S", "T", "U", "V", "W", "X", "Y", "Z", "a", "b", "c", "d", "e", "f",
       "g", "h", "i", "j", "k", "l", "m", "n", "o", "p", "q", "r", "s", "t", "u", "v",
       "w", "x", "y", "z", "0", "1", "2", "3", "4", "5", "6", "7", "8", "9", "+", "/" >>

Sextet(n) == Base64Alphabet[n + 1]

\* Buffer.toString('base64') of a sequence of bytes
RECURSIVE Base64(_)
Base64(bytes) ==
    IF Len(bytes) = 0 THEN <<>>
    ELSE IF Len(bytes) = 1
    THEN << Sextet(bytes[1] \div 4), Sextet((bytes[1] % 4) * 16), "=", "=" >>
    ELSE IF Len(bytes) = 2
    THEN << Sextet(bytes[1] \div 4),
            Sextet((bytes[1] % 4) * 16 + bytes[2] \div 16),
            Sextet((bytes[2] % 16) * 4), "=" >>
    ELSE << Sextet(bytes[1] \div 4),
            Sextet((bytes[1] % 4) * 16 + bytes[2] \div 16),
            Sextet((bytes[2] % 16) * 4 + bytes[3] \div 64),
            Sextet(bytes[3] % 64) >>
         \o Base64(SubSeq(bytes, 4, Len(bytes)))

\* `${v}` of a string or number value
TemplateString(v) == v.s

\* Buffer.from(`feedback:${postID}`).toString('base64')
FeedbackId(postID) ==
    LET text == <<"f", "e", "e", "d", "b", "a", "c", "k", ":">> \o TemplateString(postID)
    IN  Base64([i \in DOMAIN text |-> CharCode(text[i])])

\* utils.generateOfflineThreadingID(): the n-th identifier drawn from entropy g
generateOfflineThreadingID(g, n) == [seed |-> g, nth |-> n]

----------------------------------------------------------------------------
\* The session context and the cookie jar.

\* accessToken: the value of the first access_token cookie of ctx.jar, or null.
AccessToken(jar) ==
    IF \E i \in DOMAIN jar : jar[i].key = "access_token"
    THEN Str(jar[CHOOSE i \in DOMAIN jar :
                   /\ jar[i].key = "access_token"
                   /\ \A j \in 1..(i - 1) : jar[j].key # "access_token"].value)
    ELSE Null

\* customHeader.Authorization, or Undefined when customHeader stays {}
CustomHeader(jar) ==
    IF Truthy(AccessToken(jar))
    THEN Str(<<"O", "A", "u", "t", "h", " ">> \o AccessToken(jar).s)
    ELSE Undefined

----------------------------------------------------------------------------
\* The requests.  variables holds the object JSON.stringify encodes.

profileGuardRequest(enable, targetUserID, cx, g) ==
    [ url |-> "https://graph.facebook.com/graphql",
      form |-> [ variables |-> [ arg0 |-> [ is_shielded |-> enable,
                                            actor_id |-> targetUserID,
                                            client_mutation_id |-> generateOfflineThreadingID(g, 1) ] ],
                 doc_id |-> "1477043292367183" ],
      Authorization |-> CustomHeader(cx.jar) ]

lockProfileRequest(enable, targetUserID, cx, g) ==
    [ url |-> "https://www.facebook.com/api/graphql/",
      form |-> [ fb_api_caller_class |-> "RelayModern",
                 fb_api_req_friendly_name |-> "ProfileCometSetProfileLockMutation",
                 variables |-> [ input |-> [ is_locked |-> enable,
                                             user_id |-> targetUserID,
                                             actor_id |-> cx.userID,
                                             client_mutation_id |-> generateOfflineThreadingID(g, 1) ] ],
                 server_timestamps |-> TRUE,
                 doc_id |-> "5552698734782825" ] ]

reactPostRequest(postID, reactionValue, cx, g) ==
    [ url |-> "https://www.facebook.com/api/graphql/",
      form |-> [ fb_api_caller_class |-> "RelayModern",
                 fb_api_req_friendly_name |-> "CometUFIFeedbackReactMutation",
                 variables |-> [ input |-> [ attribution_id_v2 |-> [ now |-> g, random |-> g, userID |-> cx.userID ],
                                             feedback_id |-> FeedbackId(postID),
                                             feedback_reaction |-> reactionValue,
                                             feedback_source |-> "PROFILE",
                                             is_tracking_encrypted |-> FALSE,
                                             tracking |-> <<>>,
                                             session_id |-> generateOfflineThreadingID(g, 1),
                                             actor_id |-> cx.userID,
                                             client_mutation_id |-> generateOfflineThreadingID(g, 2) ] ],
                 server_timestamps |-> TRUE,
                 doc_id |-> "5803809346330346" ] ]

setProfileGuardRequest(guard, cx) ==
    [ url |-> "https://www.facebook.com/api/graphql",
      form |-> [ av |-> cx.userID,
                 variables |-> [ input |-> [ is_shielded |-> guard,
                                             actor_id |-> cx.userID,
                                             client_mutation_id |-> "1" ],
                                 scale |-> 1 ],
                 doc_id |-> "1477043292367183",
                 fb_api_req_friendly_name |-> "IsShieldedSetMutation",
                 fb_api_caller_class |-> "IsShieldedSetMutation" ] ]

----------------------------------------------------------------------------
\* Promises, the events of a call, and the call record.

Pending == [state |-> "pending", err |-> NoErr, data |-> NoData]
Fulfilled(d) == [state |-> "fulfilled", err |-> NoErr, data |-> d]
Rejected(e) == [state |-> "rejected", err |-> e, data |-> NoData]

\* resolveFunc(data) / rejectFunc(err): settling a settled promise does nothing.
resolveFunc(p, d) == IF p.state = "pending" THEN Fulfilled(d) ELSE p
rejectFunc(p, e) == IF p.state = "pending" THEN Rejected(e) ELSE p

LogEv(tag, msg) == [ev |-> "log", tag |-> tag, msg |-> msg]
ErrorEv(tag, e) == [ev |-> "error", tag |-> tag, err |-> e]
PostEv(req) == [ev |-> "post", req |-> req]
CallbackEv(e, d) == [ev |-> "callback", err |-> e, data |-> d]

NoLocals ==
    [ enable |-> FALSE, targetUserID |-> Undefined, postID |-> Undefined,
      normalizedReaction |-> <<>>, reactionValue |-> 0 ]

NoOutcome == [kind |-> "none", err |-> NoErr, error |-> "", errors |-> "", errField |-> ""]

\* A call slot.  callback is the caller's callback after the optional
\* parameters are sorted out (a falsy value: the call uses its own default);
\* promise is the promise the caller got back; threw is what the call threw
\* synchronously; raised is an exception in flight inside the call.
IdleCall ==
    [ pc |-> "idle", op |-> "none", args |-> <<Undefined, Undefined, Undefined>>,
      callback |-> Undefined, locals |-> NoLocals, gen |-> 0, trace |-> <<>>,
      returnPromise |-> Pending, promise |-> Pending,
      threw |-> NoErr, raised |-> NoErr, outcome |-> NoOutcome ]

NewCall(op, a1, a2, a3, cb) ==
    [IdleCall EXCEPT !.pc = "running", !.op = op, !.args = <<a1, a2, a3>>, !.callback = cb]

\* callback(err, data), with callback = callback || function (err, data) {
\*   if (err) return rejectFunc(err); resolveFunc(data); }
Invoke(call, e, d) ==
    IF Truthy(call.callback)
    THEN IF call.callback.type = "function"
         THEN [call EXCEPT !.trace = Append(@, CallbackEv(e, d)),
                           !.raised = IF call.callback.throws THEN CbError ELSE NoErr]
         ELSE [call EXCEPT !.raised = TypeError("callback is not a function")]
    ELSE IF IsErr(e)
         THEN [call EXCEPT !.returnPromise = rejectFunc(@, e)]
         ELSE [call EXCEPT !.returnPromise = resolveFunc(@, d)]

\* An async function ends: return <value of callback(...)>, or the exception
\* that escaped it rejects its promise.
ReturnUndefined(call) ==
    [call EXCEPT !.pc = "done",
                 !.promise = IF IsErr(call.raised) THEN Rejected(call.raised) ELSE Fulfilled(NoData),
                 !.raised = NoErr]

\* return returnPromise: the async function's promise follows returnPromise.
ReturnPromise(call) ==
    [call EXCEPT !.pc = "done", !.promise = call.returnPromise, !.raised = NoErr]

\* utils.error(tag, error); return callback(error);
Fail(call, tag, error) ==
    ReturnUndefined(Invoke([call EXCEPT !.trace = Append(@, ErrorEv(tag, error))], error, NoData))

\* Faulty variant of Catch: the catch block posts the request again before giving up.
CatchRetry(call, tag, error) ==
    LET again == [call EXCEPT !.trace = @ \o SelectSeq(call.trace, LAMBDA e : e.ev = "post"),
                              !.raised = NoErr]
        logged == [again EXCEPT !.trace = Append(@, ErrorEv(tag, error))]
        told == Invoke(logged, error, NoData)
    IN  IF IsErr(told.raised) THEN ReturnUndefined(told) ELSE ReturnPromise(told)

\* catch (error) { utils.error(tag, error); callback(error); } return returnPromise;
Catch(call, tag, error) ==
    LET logged == [call EXCEPT !.trace = Append(@, ErrorEv(tag, error)), !.raised = NoErr]
        told == Invoke(logged, error, NoData)
    IN  IF IsErr(told.raised) THEN ReturnUndefined(told) ELSE ReturnPromise(told)

\* Faulty variant of HasError: only the error field is looked at.
HasErrorFieldOnly(o) == o.error # ""

\* response.error || response.errors
HasError(o) == o.error # "" \/ o.errors # ""

\* new Error(response.error ? response.error : JSON.stringify(response.errors))
RemoteError(o) == Error(IF o.error # "" THEN o.error ELSE o.errors)

\* The rest of a try block once the post has been answered: the rejection or
\* the error field goes to the catch block, a clean response to the callback.
Settle(call, tag, o, result, msg) ==
    LET c0 == [call EXCEPT !.outcome = o]
    IN  IF o.kind = "rejected" THEN Catch(c0, tag, o.err)
        ELSE IF HasError(o) THEN Catch(c0, tag, RemoteError(o))
        ELSE LET told == Invoke([c0 EXCEPT !.trace = Append(@, LogEv(tag, msg))], NoErr, result)
             IN  IF IsErr(told.raised) THEN Catch(told, tag, told.raised)
                 ELSE ReturnPromise(told)

----------------------------------------------------------------------------
\* profileGuard(enable, userID, callback)

\* utils.getType(userID) === "Function" || utils.getType(userID) === "AsyncFunction"
IsFunction(v) == getType(v) \in {"Function", "AsyncFunction"}

\* Faulty variant of ValidEnable: the type check is dropped.
ValidEnableAny(enable) == TRUE

\* typeof enable !== 'boolean' is the failure
ValidEnable(enable) == TypeOf(enable) = "boolean"

\* userID || ctx.userID
TargetUserID(userID, cx) == IF Truthy(userID) THEN userID ELSE cx.userID

profileGuardCall(enable, userID, callback, cx, g) ==
    LET cb == IF IsFunction(userID) THEN userID ELSE callback
        uid == IF IsFunction(userID) THEN Null ELSE userID
        call == NewCall("profileGuard", enable, userID, callback, cb)
        targetUserID == TargetUserID(uid, cx)
    IN  IF ~ValidEnable(enable)
        THEN Fail(call, "profileGuard",
                  Error("profileGuard: First parameter must be a boolean (true to enable, false to disable)"))
        ELSE IF ~Truthy(targetUserID)
        THEN Fail(call, "profileGuard",
                  Error("profileGuard: User ID not found. Please ensure you are logged in."))
        ELSE [call EXCEPT
                !.pc = "awaiting", !.gen = g,
                !.locals = [NoLocals EXCEPT !.enable = enable.b, !.targetUserID = targetUserID],
                !.trace = << LogEv("profileGuard",
                                   << IF enable.b THEN "Enabling" ELSE "Disabling",
                                      " profile picture guard for user ", targetUserID.s >>),
                             PostEv(profileGuardRequest(enable.b, targetUserID, cx, g)) >>]

profileGuardResult(call) ==
    [ success |-> TRUE, enabled |-> call.locals.enable, userID |-> call.locals.targetUserID,
      message |-> << "Profile picture guard ",
                     IF call.locals.enable THEN "enabled" ELSE "disabled", " successfully" >> ]

profileGuardSettled(call, o) ==
    Settle(call, "profileGuard", o, profileGuardResult(call), profileGuardResult(call).message)

----------------------------------------------------------------------------
\* lockProfile(enable, userID, callback)

lockProfileCall(enable, userID, callback, cx, g) ==
    LET cb == IF IsFunction(userID) THEN userID ELSE callback
        uid == IF IsFunction(userID) THEN Null ELSE userID
        call == NewCall("lockProfile", enable, userID, callback, cb)
        targetUserID == TargetUserID(uid, cx)
    IN  IF ~ValidEnable(enable)
        THEN Fail(call, "lockProfile",
                  Error("lockProfile: First parameter must be a boolean (true to lock, false to unlock)"))
        ELSE IF ~Truthy(targetUserID)
        THEN Fail(call, "lockProfile",
                  Error("lockProfile: User ID not found. Please ensure you are logged in."))
        ELSE [call EXCEPT
                !.pc = "awaiting", !.gen = g,
                !.locals = [NoLocals EXCEPT !.enable = enable.b, !.targetUserID = targetUserID],
                !.trace = << LogEv("lockProfile",
                                   << IF enable.b THEN "Locking" ELSE "Unlocking",
                                      " profile for user ", targetUserID.s >>),
                             PostEv(lockProfileRequest(enable.b, targetUserID, cx, g)) >>]

lockProfileResult(call) ==
    [ success |-> TRUE, locked |-> call.locals.enable, userID |-> call.locals.targetUserID,
      message |-> << "Profile ", IF call.locals.enable THEN "locked" ELSE "unlocked", " successfully" >>,
      note |-> IF call.locals.enable
               THEN "Your profile is now locked. Only friends can see your posts and photos."
               ELSE "Your profile is now unlocked. Your privacy settings control who can see your content." ]

lockProfileSettled(call, o) ==
    Settle(call, "lockProfile", o, lockProfileResult(call), lockProfileResult(call).message)

----------------------------------------------------------------------------
\* reactPost(postID, reactionType, callback)

\* Faulty variant of Normalize: the reaction type is looked up as it was passed.
NormalizeAsIs(reactionType) == reactionType.s

\* reactionType.toUpperCase(): a value that is no string has no such method
Normalize(reactionType) == toUpperCase(reactionType.s)

reactPostCall(postID, reactionType, callback, cx, g) ==
    LET call == NewCall("reactPost", postID, reactionType, callback, callback)
    IN  IF ~Truthy(postID)
        THEN Fail(call, "reactPost", Error("reactPost: Post ID is required"))
        ELSE IF ~Truthy(reactionType)
        THEN Fail(call, "reactPost", Error("reactPost: Reaction type is required"))
        ELSE IF TypeOf(reactionType) # "string"
        THEN ReturnUndefined([call EXCEPT !.raised = TypeError("reactionType.toUpperCase is not a function")])
        ELSE LET normalizedReaction == Normalize(reactionType)
             IN  IF ~hasOwnProperty(normalizedReaction)
                 THEN Fail(call, "reactPost",
                           Error("reactPost: Invalid reaction type. Must be one of: LIKE, LOVE, CARE, HAHA, WOW, SAD, ANGRY, NONE"))
                 ELSE LET reactionValue == Lookup(normalizedReaction)
                      IN  [call EXCEPT
                             !.pc = "awaiting", !.gen = g,
                             !.locals = [NoLocals EXCEPT !.postID = postID,
                                                         !.normalizedReaction = normalizedReaction,
                                                         !.reactionValue = reactionValue],
                             !.trace = << LogEv("reactPost",
                                                IF reactionValue = 0
                                                THEN << "Removing reaction from", " post ", postID.s >>
                                                ELSE << "Adding ", normalizedReaction, " to", " post ", postID.s >>),
                                          PostEv(reactPostRequest(postID, reactionValue, cx, g)) >>]

reactPostResult(call) ==
    [ success |-> TRUE, postID |-> call.locals.postID,
      reaction |-> call.locals.normalizedReaction,
      reactionValue |-> call.locals.reactionValue,
      message |-> IF call.locals.reactionValue = 0
                  THEN << "Reaction removed successfully" >>
                  ELSE << "Reacted with ", call.locals.normalizedReaction, " successfully" >> ]

reactPostSettled(call, o) ==
    Settle(call, "reactPost", o, reactPostResult(call), reactPostResult(call).message)

----------------------------------------------------------------------------
\* The older profileGuard(guard, callback = () => {}), logging as "setProfileGuard".

\* callback(...): the default callback does nothing
InvokeGuardCallback(call, e) ==
    IF call.callback.type = "function"
    THEN [call EXCEPT !.trace = Append(@, CallbackEv(e, NoData)),
                      !.raised = IF call.callback.throws THEN CbError ELSE NoErr]
    ELSE call

setProfileGuardCall(guard, callback, cx) ==
    LET call == NewCall("setProfileGuard", guard, callback, Undefined, callback)
    IN  IF getType(guard) # "Boolean"
        THEN [call EXCEPT !.pc = "done", !.threw = Thrown("Please pass a boolean as a second argument.")]
        ELSE [call EXCEPT !.pc = "awaiting",
                          !.locals = [NoLocals EXCEPT !.enable = guard.b],
                          !.trace = << PostEv(setProfileGuardRequest(guard.b, cx)) >>]

\* .catch(err => { utils.error("setProfileGuard", err); return callback(err); })
setProfileGuardCatch(call, err) ==
    ReturnUndefined(InvokeGuardCallback(
        [call EXCEPT !.trace = Append(@, ErrorEv("setProfileGuard", err)), !.raised = NoErr], err))

setProfileGuardSettled(call, o) ==
    LET c0 == [call EXCEPT !.outcome = o]
    IN  IF o.kind = "rejected" THEN setProfileGuardCatch(c0, o.err)
        ELSE IF o.errField # "" THEN setProfileGuardCatch(c0, Thrown(o.errField))
        ELSE LET told == InvokeGuardCallback(c0, UndefErr)
             IN  IF IsErr(told.raised) THEN setProfileGuardCatch(told, told.raised)
                 ELSE ReturnUndefined(told)

----------------------------------------------------------------------------
\* The environment: sessions, arguments, generated values, transport answers.

SessionUser == Str(<<"4">>)
OtherUser == Str(<<"1", "0", "0">>)

LoggedIn == [userID |-> SessionUser, jar |-> << [key |-> "c_user", value |-> <<"4">>] >>]
LoggedInWithToken ==
    [userID |-> SessionUser,
     jar |-> << [key |-> "c_user", value |-> <<"4">>], [key |-> "access_token", value |-> <<"T">>] >>]
NoSession == [userID |-> Undefined, jar |-> <<>>]

Gens == 1..MaxGen

\* defaultFuncs.post(...).then(utils.parseAndCheckLogin(...)) settles: rejected
\* (transport failure, session no longer valid) or fulfilled with the decoded response.
Rejection(msg) == [NoOutcome EXCEPT !.kind = "rejected", !.err = Error(msg)]
Response(error, errors, errField) ==
    [NoOutcome EXCEPT !.kind = "response", !.error = error, !.errors = errors, !.errField = errField]

Clean == Response("", "", "")
Outcomes ==
    { Clean, Response("boom", "", ""), Response("", "[{\"message\":\"boom\"}]", ""),
      Response("", "[]", ""), Response("boom", "[{\"message\":\"boom\"}]", ""),
      Response("", "", "boom"), Rejection("ECONNRESET"), Rejection("Not logged in.") }

love == <<"l", "o", "v", "e">>

Inputs ==
    [ slots |-> {1},
      enables |-> {Bool(TRUE), Bool(FALSE), Str(<<"y", "e", "s">>)},
      userIDs |-> {Undefined, OtherUser, Fn(FALSE), Fn(TRUE), AsyncFn},
      callbacks |-> {Undefined, Fn(FALSE), Fn(TRUE)},
      postIDs |-> {Undefined, Str(<<>>), Str(<<"1", "2">>), Str(<<"7", "_", "8">>)},
      reactionTypes |-> {Undefined, Str(love), Str(<<"L", "O", "V", "E">>), Str(<<"N", "O", "N", "E">>),
                         Str(<<"B", "O", "G", "U", "S">>), Num(<<"5">>), Fn(FALSE)},
      gens |-> Gens,
      outcomes |-> Outcomes ]

----------------------------------------------------------------------------
\* Actions.

NumPosts(trace) == Cardinality({i \in DOMAIN trace : trace[i].ev = "post"})

\* The synchronous part of a call, up to its first await or its return.
Started(c, call) ==
    /\ calls' = [calls EXCEPT ![c] = call]
    /\ netPosts' = netPosts + NumPosts(call.trace)
    /\ UNCHANGED ctx

\* The part after the await, run when the transport has answered.
Answered(c, call) ==
    /\ calls' = [calls EXCEPT ![c] = call]
    /\ netPosts' = netPosts + NumPosts(call.trace) - NumPosts(calls[c].trace)
    /\ UNCHANGED ctx

Idle(c) == calls[c].pc = "idle"

Awaiting(c, op) == calls[c].pc = "awaiting" /\ calls[c].op = op

profileGuard(in) ==
    \E c \in in.slots, enable \in in.enables, userID \in in.userIDs, callback \in in.callbacks, g \in in.gens :
        /\ Idle(c)
        /\ Started(c, profileGuardCall(enable, userID, callback, ctx, g))

profileGuardAnswer(in) ==
    \E c \in DOMAIN calls, o \in in.outcomes :
        /\ Awaiting(c, "profileGuard")
        /\ Answered(c, profileGuardSettled(calls[c], o))

lockProfile(in) ==
    \E c \in in.slots, enable \in in.enables, userID \in in.userIDs, callback \in in.callbacks, g \in in.gens :
        /\ Idle(c)
        /\ Started(c, lockProfileCall(enable, userID, callback, ctx, g))

lockProfileAnswer(in) ==
    \E c \in DOMAIN calls, o \in in.outcomes :
        /\ Awaiting(c, "lockProfile")
        /\ Answered(c, lockProfileSettled(calls[c], o))

reactPost(in) ==
    \E c \in in.slots, postID \in in.postIDs, reactionType \in in.reactionTypes, callback \in in.callbacks, g \in in.gens :
        /\ Idle(c)
        /\ Started(c, reactPostCall(postID, reactionType, callback, ctx, g))

reactPostAnswer(in) ==
    \E c \in DOMAIN calls, o \in in.outcomes :
        /\ Awaiting(c, "reactPost")
        /\ Answered(c, reactPostSettled(calls[c], o))

setProfileGuard(in) ==
    \E c \in in.slots, guard \in in.enables, callback \in in.callbacks :
        /\ Idle(c)
        /\ Started(c, setProfileGuardCall(guard, callback, ctx))

setProfileGuardAnswer(in) ==
    \E c \in DOMAIN calls, o \in in.outcomes :
        /\ Awaiting(c, "setProfileGuard")
        /\ Answered(c, setProfileGuardSettled(calls[c], o))

----------------------------------------------------------------------------
\* Spec: one call of any operation, with any arguments, in any session, and
\* any answer of the transport.

Init ==
    /\ calls = << IdleCall >>
    /\ ctx \in {LoggedIn, LoggedInWithToken, NoSession}
    /\ netPosts = 0

Next ==
    \/ profileGuard(Inputs)
    \/ profileGuardAnswer(Inputs)
    \/ lockProfile(Inputs)
    \/ lockProfileAnswer(Inputs)
    \/ reactPost(Inputs)
    \/ reactPostAnswer(Inputs)
    \/ setProfileGuard(Inputs)
    \/ setProfileGuardAnswer(Inputs)

Spec == Init /\ [][Next]_vars

----------------------------------------------------------------------------
\* SpecCalls: up to MaxCalls calls outstanding together in one logged-in
\* session, started and answered in any order.

CallsInputs ==
    [ slots |-> 1..MaxCalls,
      enables |-> {Bool(TRUE), Str(<<"y", "e", "s">>)},
      userIDs |-> {Undefined},
      callbacks |-> {Undefined, Fn(FALSE)},
      postIDs |-> {Str(<<"1", "2">>)},
      reactionTypes |-> {Str(love)},
      gens |-> Gens,
      outcomes |-> {Clean, Rejection("ECONNRESET")} ]

InitCalls ==
    /\ calls = [c \in 1..MaxCalls |-> IdleCall]
    /\ ctx = LoggedIn
    /\ netPosts = 0

NextCalls ==
    \/ profileGuard(CallsInputs)
    \/ profileGuardAnswer(CallsInputs)
    \/ lockProfile(CallsInputs)
    \/ lockProfileAnswer(CallsInputs)
    \/ reactPost(CallsInputs)
    \/ reactPostAnswer(CallsInputs)

SpecCalls == InitCalls /\ [][NextCalls]_vars

----------------------------------------------------------------------------
\* SpecReact: one reactPost call whose reactionType is any upper/lower-case
\* spelling of a reaction name, or no reaction name at all.

LowerOf(ch) ==
    IF \E i \in DOMAIN UpperLetters : UpperLetters[i] = ch
    THEN LowerLetters[CHOOSE i \in DOMAIN UpperLetters : UpperLetters[i] = ch]
    ELSE ch

\* s spells name with each letter in either case
IsSpelling(s, name) ==
    /\ Len(s) = Len(name)
    /\ \A i \in DOMAIN name : s[i] \in {name[i], LowerOf(name[i])}

ReactionNames == {REACTION_TYPES[i].name : i \in DOMAIN REACTION_TYPES}

\* Every spelling of name with each letter in either case.
RECURSIVE Spellings(_)
Spellings(name) ==
    IF name = <<>> THEN {<<>>}
    ELSE {<<ch>> \o rest : ch \in {name[1], LowerOf(name[1])}, rest \in Spellings(Tail(name))}

AllSpellings == UNION {Spellings(name) : name \in ReactionNames}

ReactPostIDs == {Str(<<"1", "2">>), Str(<<"7", "_", "8">>)}

SpelledInputs ==
    [ slots |-> {1}, postIDs |-> ReactPostIDs,
      reactionTypes |-> {Str(s) : s \in AllSpellings} \cup {Str(<<"B", "O", "G", "U", "S">>)},
      callbacks |-> {Undefined, Fn(FALSE)}, gens |-> Gens,
      outcomes |-> {Clean, Rejection("ECONNRESET")} ]

InitReact ==
    /\ calls = << IdleCall >>
    /\ ctx = LoggedIn
    /\ netPosts = 0

NextReact ==
    \/ reactPost(SpelledInputs)
    \/ reactPostAnswer(SpelledInputs)

SpecReact == InitReact /\ [][NextReact]_vars

----------------------------------------------------------------------------
\* What the claims speak of, read off a call slot.

ThreeOps == {"profileGuard", "lockProfile", "reactPost"}
GuardOps == {"profileGuard", "lockProfile"}

CallbackEvents(call) == {i \in DOMAIN call.trace : call.trace[i].ev = "callback"}
ErrorEvents(call) == {i \in DOMAIN call.trace : call.trace[i].ev = "error"}
Posts(call) == SelectSeq(call.trace, LAMBDA e : e.ev = "post")

\* The argument the caller passed as callback.
PassedCallback(call) ==
    CASE call.op \in GuardOps ->
             IF call.args[2].type = "function" THEN call.args[2] ELSE call.args[3]
      [] call.op = "reactPost" -> call.args[3]
      [] OTHER -> call.args[2]

HasCallback(call) == PassedCallback(call).type = "function"

\* The caller's explicit target user, if any.
ExplicitUser(call) == IF call.args[2].type = "function" THEN Undefined ELSE call.args[2]

\* The arguments fail input validation in session cx.
FailsValidation(call, cx) ==
    CASE call.op \in GuardOps ->
             \/ call.args[1].type # "boolean"
             \/ ~Truthy(ExplicitUser(call)) /\ ~Truthy(cx.userID)
      [] call.op = "reactPost" ->
             \/ ~Truthy(call.args[1])
             \/ ~Truthy(call.args[2])
             \/ ~(/\ call.args[2].type = "string"
                  /\ \E name \in ReactionNames : IsSpelling(call.args[2].s, name))
      [] call.op = "setProfileGuard" -> call.args[1].type # "boolean"
      [] OTHER -> FALSE

\* The transport answered with a decoded response that carries error or errors.
ErrorResponse(call) ==
    call.outcome.kind = "response" /\ (call.outcome.error # "" \/ call.outcome.errors # "")

CleanResponse(call) ==
    call.outcome.kind = "response" /\ call.outcome.error = "" /\ call.outcome.errors = ""

\* The call failed: it logged an error, threw, or its promise is rejected.
Failed(call) ==
    ErrorEvents(call) # {} \/ IsErr(call.threw) \/ call.promise.state = "rejected"

\* The first invocation of the caller's callback.
FirstCallback(call) == CHOOSE i \in CallbackEvents(call) : \A j \in CallbackEvents(call) : i <= j

\* C1: a profileGuard or lockProfile call whose enable is no boolean does not
\* throw; a callback that was passed is invoked with the error, and without a
\* callback the returned promise is rejected.
C1_NonBooleanEnableIsDelivered ==
    \A c \in DOMAIN calls :
        LET call == calls[c]
        IN  ( /\ call.op \in GuardOps \cup {"setProfileGuard"}
              /\ call.pc = "done"
              /\ call.args[1].type # "boolean" )
            => /\ ~IsErr(call.threw)
               /\ HasCallback(call) => \E i \in CallbackEvents(call) : IsErr(call.trace[i].err)
               /\ ~HasCallback(call) => call.promise.state = "rejected"

\* C2: in each of the three operations a function passed as second argument,
\* with no third argument, is invoked as the callback, (null, result) on
\* success and (err) on failure, and profileGuard/lockProfile then target the
\* session's current user.
C2_FunctionInSecondPositionIsTheCallback ==
    \A c \in DOMAIN calls :
        LET call == calls[c]
        IN  ( /\ call.op \in ThreeOps
              /\ call.pc = "done"
              /\ call.args[2].type = "function"
              /\ call.args[3] = Undefined )
            => /\ CallbackEvents(call) # {}
               /\ \A i \in CallbackEvents(call) :
                      (\A j \in CallbackEvents(call) : i <= j)
                      => IF CleanResponse(call)
                         THEN ~IsErr(call.trace[i].err) /\ call.trace[i].data.success
                         ELSE IsErr(call.trace[i].err)
               /\ (call.op \in GuardOps /\ Len(Posts(call)) > 0)
                  => call.locals.targetUserID = ctx.userID

\* C3: once the transport has answered or failed, the returned promise is
\* settled, with the result or the error the callback received, also when the
\* caller passed a callback.
C3_PromiseEquivalentToCallback ==
    \A c \in DOMAIN calls :
        LET call == calls[c]
        IN  (call.op \in ThreeOps /\ call.pc = "done" /\ call.outcome.kind # "none")
            => /\ call.promise.state # "pending"
               /\ \A i \in CallbackEvents(call) :
                      IF IsErr(call.trace[i].err)
                      THEN call.promise = Rejected(call.trace[i].err)
                      ELSE call.promise = Fulfilled(call.trace[i].data)

\* C4: a call whose arguments fail validation never reaches the transport:
\* it hands no post to defaultFuncs.post and never waits for an answer.
C4_ValidationFailureNeverPosts ==
    \A c \in DOMAIN calls :
        FailsValidation(calls[c], ctx)
        => /\ Len(Posts(calls[c])) = 0
           /\ calls[c].pc # "awaiting"
           /\ (\A d \in DOMAIN calls : d = c \/ calls[d].pc = "idle") => netPosts = 0

\* A finished reactPost call with a reaction outside the enumeration: the
\* callback got the error and nothing was posted.
C4_Witness ==
    \E c \in DOMAIN calls :
        /\ calls[c].op = "reactPost" /\ calls[c].pc = "done"
        /\ calls[c].args[2] = Str(<<"B", "O", "G", "U", "S">>)
        /\ Truthy(calls[c].args[1])
        /\ FailsValidation(calls[c], ctx)
        /\ \E i \in CallbackEvents(calls[c]) : IsErr(calls[c].trace[i].err)
        /\ netPosts = 0

C6_EveryFailureReachesTheCallback ==
    \A c \in DOMAIN calls :
        LET call == calls[c]
        IN  (call.op \in ThreeOps /\ call.pc = "done" /\ HasCallback(call) /\ Failed(call))
            => \E i \in CallbackEvents(call) : IsErr(call.trace[i].err)

\* C7: every started call whose arguments pass validation has handed exactly
\* one post to the transport, whatever the other calls did (the transport has
\* seen one post per such call); a call whose post failed surfaces that
\* failure and a call answered cleanly delivers its own success result, each
\* with that single post.
C7_OnePostPerValidCall ==
    /\ \A c \in DOMAIN calls :
           calls[c].op \in ThreeOps
           => Len(Posts(calls[c])) = IF FailsValidation(calls[c], ctx) THEN 0 ELSE 1
    /\ (\A c \in DOMAIN calls : calls[c].op \in ThreeOps \cup {"none"})
       => netPosts = Cardinality({c \in DOMAIN calls :
                                     calls[c].pc # "idle" /\ ~FailsValidation(calls[c], ctx)})
    /\ \A c \in DOMAIN calls :
           LET call == calls[c]
           IN  /\ (call.op \in ThreeOps /\ call.pc = "done" /\ call.outcome.kind = "rejected")
                  => IF HasCallback(call)
                     THEN \E i \in CallbackEvents(call) : call.trace[i].err = call.outcome.err
                     ELSE call.promise = Rejected(call.outcome.err)
               /\ (call.op \in ThreeOps /\ call.pc = "done" /\ CleanResponse(call))
                  => IF HasCallback(call)
                     THEN \E i \in CallbackEvents(call) :
                              ~IsErr(call.trace[i].err) /\ call.trace[i].data.success
                     ELSE call.promise.state = "fulfilled" /\ call.promise.data.success

\* Two profileGuard(true) calls, both answered cleanly, both resolved with a
\* success result, two posts on the transport.
C7_Witness ==
    \E c, d \in DOMAIN calls :
        /\ c # d
        /\ \A e \in {c, d} :
               /\ calls[e].op = "profileGuard" /\ calls[e].pc = "done"
               /\ calls[e].args = <<Bool(TRUE), Undefined, Undefined>>
               /\ CleanResponse(calls[e])
               /\ calls[e].promise.state = "fulfilled" /\ calls[e].promise.data.success
               /\ Len(Posts(calls[e])) = 1
        /\ netPosts >= 2

\* C8: in every failed call the error is passed to utils.error before it is
\* delivered to the callback or becomes the rejection of the returned promise
\* (stated for callers whose callback does not itself throw).
C8_ErrorLoggedBeforeSurfacing ==
    \A c \in DOMAIN calls :
        LET call == calls[c]
            Logged(e, before) ==
                \E j \in ErrorEvents(call) : j < before /\ call.trace[j].err = e
        IN  (call.op \in ThreeOps /\ call.pc = "done" /\ ~PassedCallback(call).throws)
            => /\ \A i \in CallbackEvents(call) :
                      IsErr(call.trace[i].err) => Logged(call.trace[i].err, i)
               /\ call.promise.state = "rejected"
                  => Logged(call.promise.err, Len(call.trace) + 1)

\* The name and the code of the reaction that s spells.
NameSpelled(s) == CHOOSE name \in ReactionNames : IsSpelling(s, name)
CodeOf(name) ==
    CASE name = <<"L", "I", "K", "E">> -> 1
      [] name = <<"L", "O", "V", "E">> -> 2
      [] name = <<"C", "A", "R", "E">> -> 16
      [] name = <<"H", "A", "H", "A">> -> 4
      [] name = <<"W", "O", "W">> -> 3
      [] name = <<"S", "A", "D">> -> 7
      [] name = <<"A", "N", "G", "R", "Y">> -> 8
      [] name = <<"N", "O", "N", "E">> -> 0

\* C9: a reactPost call whose reactionType spells a reaction name in any mix
\* of upper and lower case posts exactly the request that the uppercase
\* spelling posts for the same post id and the same generated values, with
\* the name's integer code as feedback_reaction, and its result carries the
\* uppercase name as reaction and that code as reactionValue.
C9_CaseInsensitiveCanonical ==
    \A c \in DOMAIN calls :
        LET call == calls[c]
        IN  ( /\ call.op = "reactPost" /\ call.pc # "idle"
              /\ Truthy(call.args[1])
              /\ call.args[2].type = "string"
              /\ \E name \in ReactionNames : IsSpelling(call.args[2].s, name) )
            => LET name == NameSpelled(call.args[2].s)
                   upper == reactPostCall(call.args[1], Str(name), call.args[3], ctx, call.gen)
               IN  /\ Len(Posts(call)) = 1
                   /\ Posts(call) = Posts(upper)
                   /\ Posts(call)[1].req.form.variables.input.feedback_reaction = CodeOf(name)
                   /\ (call.pc = "done" /\ CleanResponse(call))
                      => LET result == IF HasCallback(call)
                                       THEN call.trace[FirstCallback(call)].data
                                       ELSE call.promise.data
                             answered == reactPostSettled(upper, call.outcome)
                         IN  /\ result.success
                             /\ result.reaction = name
                             /\ result.reactionValue = CodeOf(name)
                             /\ result = IF HasCallback(call)
                                         THEN answered.trace[FirstCallback(answered)].data
                                         ELSE answered.promise.data

\* reactPost("12", "love") answered cleanly: feedback_reaction 2 was posted and
\* the promise resolved with reaction "LOVE", reactionValue 2.
C9_Witness ==
    \E c \in DOMAIN calls :
        /\ calls[c].op = "reactPost" /\ calls[c].pc = "done"
        /\ calls[c].args = <<Str(<<"1", "2">>), Str(love), Undefined>>
        /\ CleanResponse(calls[c])
        /\ Posts(calls[c])[1].req.form.variables.input.feedback_reaction = 2
        /\ calls[c].promise.state = "fulfilled"
        /\ calls[c].promise.data.reaction = <<"L", "O", "V", "E">>
        /\ calls[c].promise.data.reactionValue = 2

\* C10: the caller's callback is invoked at most once per call.
C10_CallbackAtMostOnce ==
    \A c \in DOMAIN calls :
        calls[c].op \in ThreeOps => Cardinality(CallbackEvents(calls[c])) <= 1

====
